---- MODULE Spec2Model ----
(***************************************************************************)
(* Model of react_agent/graph.py: a three-node benchmark graph (entry,     *)
(* sequential, parallel) driven in super-steps.  The node handlers, the    *)
(* router, the state schema and the graph wiring are translated from the   *)
(* source; the super-step scheduler that runs them (barrier, merge order,  *)
(* failure policy) is the engine described in section 4.4 of the           *)
(* specification.                                                          *)
(***************************************************************************)
EXTENDS Integers, Sequences, FiniteSets, TLC

\* ---------------------------------------------------------------- bounds
MaxExpand == 3
MaxDelay == 1
MaxDataSize == 1
MaxInitCounter == 1

\* ------------------------------------------------------- BenchmarkMode
SINGLE_NODE == "SINGLE_NODE"
SEQUENTIAL_NODES == "SEQUENTIAL_NODES"
PARALLEL_NODES == "PARALLEL_NODES"

Members == {SINGLE_NODE, SEQUENTIAL_NODES, PARALLEL_NODES}

\* The enum's value table: the string each member is declared with.
EnumValue(m) ==
    CASE m = SINGLE_NODE -> "single"
      [] m = SEQUENTIAL_NODES -> "sequential"
      [] m = PARALLEL_NODES -> "parallel"

\* Can BenchmarkMode(v) be constructed?  A member maps to itself, a declared
\* value to its member, anything else raises ValueError.
IsModeValue(v) == v \in Members \/ \E m \in Members : EnumValue(m) = v

BenchmarkMode(v) ==
    IF v \in Members THEN v ELSE CHOOSE m \in Members : EnumValue(m) = v

\* Raw values a caller can put in the mode field: the three declared strings,
\* the empty string, an undeclared string, and the field's default (the
\* member SINGLE_NODE) when the caller supplies none.
RawModes == {"single", "sequential", "parallel", "", "bogus", SINGLE_NODE}

\* Python truthiness of a mode value: only the empty string is falsy here.
Truthy(v) == v # ""

\* ------------------------------------------------------------ Message
Message(id, text, data) == [id |-> id, content |-> [text |-> text, num |-> id, data |-> data]]

\* A message the caller may have put in the initial log.
SeedMessage == Message(7, "seed", <<>>)

\* ------------------------------------------------------ Configuration
\* Configuration.delay, or NoDelay when the run configuration supplies none.
NoDelay == -1

\* --------------------------------------------------------------- State
\* A State object built from the shared fields (attribute access works,
\* subscription does not).
State(c, d, ds, e, m, msgs) ==
    [kind |-> "State", counter |-> c, delay |-> d, data_size |-> ds,
     expand |-> e, mode |-> m, messages |-> msgs]

\* The argument of a Send: a plain dict holding only parallel_id (subscription
\* works, attribute access does not).
Overlay(id) == [kind |-> "dict", parallel_id |-> id]

HasAttr(state) == state.kind = "State"
HasItem(state) == state.kind = "dict"

create_large_data(state) == [i \in 1..state.data_size |-> "a"]

\* ------------------------------------------------------ partial updates
\* A handler's returned dict: a sequence of key/value entries.
Has(update, k) == \E i \in 1..Len(update) : update[i].key = k
Get(update, k) == update[CHOOSE i \in 1..Len(update) : update[i].key = k].val
Keys(update) == {update[i].key : i \in 1..Len(update)}

NoError == "none"

\* ------------------------------------------------------------ handlers
\* Each handler maps (position, snapshot, config) to the unit's next
\* position: pc "sleeping" at the await, "ok" with the returned update,
\* "failed" with the exception raised.
Result(pc, state, update, err, slept) ==
    [pc |-> pc, state |-> state, update |-> update, err |-> err, slept |-> slept]

\* Variant: an unrecognized mode falls back to SINGLE_NODE instead of raising.
entry_node_lenient(state, config) ==
    Result("ok", state,
           << [key |-> "counter", val |-> 0],
              [key |-> "mode",
               val |-> IF Truthy(state.mode) /\ IsModeValue(state.mode)
                       THEN BenchmarkMode(state.mode) ELSE SINGLE_NODE],
              [key |-> "messages", val |-> << Message(0, "entry", <<>>) >>] >>,
           NoError, NoDelay)

entry_node(state, config) ==
    IF Truthy(state.mode) /\ ~IsModeValue(state.mode)
    THEN Result("failed", state, <<>>, "ValueError", NoDelay)
    ELSE Result("ok", state,
                << [key |-> "counter", val |-> 0],
                   [key |-> "mode",
                    val |-> IF Truthy(state.mode) THEN BenchmarkMode(state.mode)
                                                  ELSE SINGLE_NODE],
                   [key |-> "messages", val |-> << Message(0, "entry", <<>>) >>] >>,
                NoError, NoDelay)

\* Variant: the counter is decremented instead of incremented.
sequential_node_decrement(pc, state, config) ==
    IF pc = "ready"
    THEN LET bumped == [state EXCEPT !.counter = state.counter - 1]
         IN  Result("sleeping", bumped, <<>>, NoError, bumped.delay)
    ELSE Result("ok", state,
                << [key |-> "counter", val |-> state.counter],
                   [key |-> "messages",
                    val |-> << Message(state.counter, "sequential",
                                       create_large_data(state)) >>] >>,
                NoError, state.delay)

\* Variant: the sequential node also returns a mode key.
sequential_node_writes_mode(pc, state, config) ==
    IF pc = "ready"
    THEN LET bumped == [state EXCEPT !.counter = state.counter + 1]
         IN  Result("sleeping", bumped, <<>>, NoError, bumped.delay)
    ELSE Result("ok", state,
                << [key |-> "counter", val |-> state.counter],
                   [key |-> "mode", val |-> SINGLE_NODE],
                   [key |-> "messages",
                    val |-> << Message(state.counter, "sequential",
                                       create_large_data(state)) >>] >>,
                NoError, state.delay)

\* Variant: the message is tagged with the counter before the increment.
sequential_node_stale_id(pc, state, config) ==
    IF pc = "ready"
    THEN LET bumped == [state EXCEPT !.counter = state.counter + 1]
         IN  Result("sleeping", bumped, <<>>, NoError, bumped.delay)
    ELSE Result("ok", state,
                << [key |-> "counter", val |-> state.counter],
                   [key |-> "messages",
                    val |-> << Message(state.counter - 1, "sequential",
                                       create_large_data(state)) >>] >>,
                NoError, state.delay)

sequential_node(pc, state, config) ==
    IF pc = "ready"
    THEN LET bumped == [state EXCEPT !.counter = state.counter + 1]
         IN  Result("sleeping", bumped, <<>>, NoError, bumped.delay)
    ELSE Result("ok", state,
                << [key |-> "counter", val |-> state.counter],
                   [key |-> "messages",
                    val |-> << Message(state.counter, "sequential",
                                       create_large_data(state)) >>] >>,
                NoError, state.delay)

parallel_node(pc, state, config) ==
    IF pc = "ready"
    THEN IF ~HasAttr(state)
         THEN Result("failed", state, <<>>, "AttributeError", NoDelay)
         ELSE Result("sleeping", state, <<>>, NoError, state.delay)
    ELSE IF ~HasItem(state)
         THEN Result("failed", state, <<>>, "TypeError", state.delay)
         ELSE IF ~HasAttr(state)
              THEN Result("failed", state, <<>>, "AttributeError", NoDelay)
              ELSE Result("ok", state,
                          << [key |-> "messages",
                              val |-> << Message(state.parallel_id, "parallel",
                                                 create_large_data(state)) >>] >>,
                          NoError, state.delay)

\* -------------------------------------------------------------- router
Send(node, arg) == [node |-> node, arg |-> arg]

\* Variant: the loop test is counter <= expand.
should_continue_off_by_one(state, config) ==
    CASE state.mode = SINGLE_NODE -> [kind |-> "node", node |-> "__end__", sends |-> <<>>]
      [] state.mode = SEQUENTIAL_NODES ->
            IF state.counter <= state.expand
            THEN [kind |-> "node", node |-> "sequential_node", sends |-> <<>>]
            ELSE [kind |-> "node", node |-> "__end__", sends |-> <<>>]
      [] state.mode = PARALLEL_NODES ->
            [kind |-> "sends", node |-> "",
             sends |-> [id \in 1..state.expand |-> Send("parallel_node", Overlay(id))]]

\* Variant: SINGLE_NODE is routed like SEQUENTIAL_NODES.
should_continue_single_loops(state, config) ==
    CASE state.mode \in {SINGLE_NODE, SEQUENTIAL_NODES} ->
            IF state.counter < state.expand
            THEN [kind |-> "node", node |-> "sequential_node", sends |-> <<>>]
            ELSE [kind |-> "node", node |-> "__end__", sends |-> <<>>]
      [] state.mode = PARALLEL_NODES ->
            [kind |-> "sends", node |-> "",
             sends |-> [id \in 1..state.expand |-> Send("parallel_node", Overlay(id))]]

\* Variant: the branch ids are range(1, expand), one directive short.
should_continue_short_range(state, config) ==
    CASE state.mode = SINGLE_NODE -> [kind |-> "node", node |-> "__end__", sends |-> <<>>]
      [] state.mode = SEQUENTIAL_NODES ->
            IF state.counter < state.expand
            THEN [kind |-> "node", node |-> "sequential_node", sends |-> <<>>]
            ELSE [kind |-> "node", node |-> "__end__", sends |-> <<>>]
      [] state.mode = PARALLEL_NODES ->
            [kind |-> "sends", node |-> "",
             sends |-> [id \in 1..(state.expand - 1) |-> Send("parallel_node", Overlay(id))]]

\* Variant: a finished sequential chain falls through to the fan-out.
should_continue_chain_fans_out(state, config) ==
    CASE state.mode = SINGLE_NODE -> [kind |-> "node", node |-> "__end__", sends |-> <<>>]
      [] state.mode = SEQUENTIAL_NODES /\ state.counter < state.expand ->
            [kind |-> "node", node |-> "sequential_node", sends |-> <<>>]
      [] OTHER ->
            [kind |-> "sends", node |-> "",
             sends |-> [id \in 1..state.expand |-> Send("parallel_node", Overlay(id))]]

\* Variant: the directives target the sequential node.
should_continue_sends_to_sequential(state, config) ==
    CASE state.mode = SINGLE_NODE -> [kind |-> "node", node |-> "__end__", sends |-> <<>>]
      [] state.mode = SEQUENTIAL_NODES ->
            IF state.counter < state.expand
            THEN [kind |-> "node", node |-> "sequential_node", sends |-> <<>>]
            ELSE [kind |-> "node", node |-> "__end__", sends |-> <<>>]
      [] state.mode = PARALLEL_NODES ->
            [kind |-> "sends", node |-> "",
             sends |-> [id \in 1..state.expand |-> Send("sequential_node", Overlay(id))]]

should_continue(state, config) ==
    CASE state.mode = SINGLE_NODE -> [kind |-> "node", node |-> "__end__", sends |-> <<>>]
      [] state.mode = SEQUENTIAL_NODES ->
            IF state.counter < state.expand
            THEN [kind |-> "node", node |-> "sequential_node", sends |-> <<>>]
            ELSE [kind |-> "node", node |-> "__end__", sends |-> <<>>]
      [] state.mode = PARALLEL_NODES ->
            [kind |-> "sends", node |-> "",
             sends |-> [id \in 1..state.expand |-> Send("parallel_node", Overlay(id))]]

\* --------------------------------------------------------------- graph
\* add_conditional_edges: the nodes whose result is followed by the router.
HasRouter(node) == node \in {"entry_node", "sequential_node"}

\* -------------------------------------------------------- merge policy
\* counter and mode carry no reducer: the last write of the super-step wins.
\* messages is annotated with operator.add: contributions are concatenated.
RECURSIVE MergeOverwrite(_, _, _)
MergeOverwrite(old, updates, k) ==
    IF updates = <<>> THEN old
    ELSE MergeOverwrite(IF Has(Head(updates), k) THEN Get(Head(updates), k) ELSE old,
                        Tail(updates), k)

\* Variant: the reducer puts the new contribution in front of the log.
add_prepend(a, b) == b \o a

add(a, b) == a \o b

RECURSIVE MergeAppend(_, _, _)
MergeAppend(old, updates, k) ==
    IF updates = <<>> THEN old
    ELSE MergeAppend(IF Has(Head(updates), k) THEN add(old, Get(Head(updates), k)) ELSE old,
                     Tail(updates), k)

\* ------------------------------------------------------------- engine
\* order is the sequence of unit indices of the current super-step in the
\* order the units finished.
VARIABLES counter, delay, data_size, expand, mode, messages,
          config, input, frontier, step, status, error, order

vars == <<counter, delay, data_size, expand, mode, messages,
          config, input, frontier, step, status, error, order>>

Unit(node, state) ==
    [node |-> node, pc |-> "ready", state |-> state, update |-> <<>>,
     err |-> NoError, slept |-> NoDelay]

Finished(u) == u.pc \in {"ok", "failed"}

Init ==
    /\ counter \in 0..MaxInitCounter
    /\ delay \in 0..MaxDelay
    /\ data_size \in 0..MaxDataSize
    /\ expand \in 0..MaxExpand
    /\ mode \in RawModes
    /\ messages \in {<<>>, << SeedMessage >>}
    /\ config \in [delay : {NoDelay} \cup (0..MaxDelay)]
    /\ input = [counter |-> counter, mode |-> mode, messages |-> messages]
    /\ frontier = << Unit("entry_node",
                          State(counter, delay, data_size, expand, mode, messages)) >>
    /\ step = 0
    /\ status = "running"
    /\ error = [unit |-> 0, node |-> "", err |-> NoError]
    /\ order = <<>>

\* The handler registered under a node name, run from its current position to
\* its next suspension point or to its end.
Handler(u) ==
    CASE u.node = "entry_node" -> entry_node(u.state, config)
      [] u.node = "sequential_node" -> sequential_node(u.pc, u.state, config)
      [] u.node = "parallel_node" -> parallel_node(u.pc, u.state, config)

\* One unit of the frontier advances; units of a super-step advance in any
\* order.
Execute(i) ==
    /\ status = "running"
    /\ ~Finished(frontier[i])
    /\ LET u == frontier[i]
           r == Handler(u)
       IN  /\ frontier' = [frontier EXCEPT ![i] =
                           [node |-> u.node, pc |-> r.pc, state |-> r.state,
                            update |-> r.update, err |-> r.err, slept |-> r.slept]]
           /\ order' = IF r.pc \in {"ok", "failed"} THEN Append(order, i) ELSE order
    /\ UNCHANGED <<counter, delay, data_size, expand, mode, messages,
                   config, input, step, status, error>>

\* Updates of the units that succeeded, in ascending unit index.
RECURSIVE Updates(_)
Updates(units) ==
    IF units = <<>> THEN <<>>
    ELSE (IF Head(units).pc = "ok" THEN << Head(units).update >> ELSE <<>>)
         \o Updates(Tail(units))

\* Variant: the engine proceeds as soon as one unit has finished.
AllFinished_any == \E i \in 1..Len(frontier) : Finished(frontier[i])

AllFinished == \A i \in 1..Len(frontier) : Finished(frontier[i])
AnyFailed == \E i \in 1..Len(frontier) : frontier[i].pc = "failed"

\* Variant: the engine raises the failure of the failed unit with the highest
\* index.
FirstFailure_last(units) ==
    LET i == CHOOSE j \in 1..Len(units) :
                 /\ units[j].pc = "failed"
                 /\ \A k \in (j + 1)..Len(units) : units[k].pc # "failed"
    IN  [unit |-> i, node |-> units[i].node, err |-> units[i].err]

\* The failure the engine raises: the failed unit with the lowest index.
FirstFailure(units) ==
    LET i == CHOOSE j \in 1..Len(units) :
                 /\ units[j].pc = "failed"
                 /\ \A k \in 1..(j - 1) : units[k].pc # "failed"
    IN  [unit |-> i, node |-> units[i].node, err |-> units[i].err]

\* Units spawned by one routing decision, each with its input.
Spawn(decision, snapshot) ==
    IF decision.kind = "sends"
    THEN [j \in 1..Len(decision.sends) |->
              Unit(decision.sends[j].node, decision.sends[j].arg)]
    ELSE IF decision.node = "__end__" THEN <<>>
         ELSE << Unit(decision.node, snapshot) >>

RECURSIVE NextFrontier(_, _)
NextFrontier(units, snapshot) ==
    IF units = <<>> THEN <<>>
    ELSE (IF HasRouter(Head(units).node)
          THEN Spawn(should_continue(snapshot, config), snapshot)
          ELSE <<>>)
         \o NextFrontier(Tail(units), snapshot)

\* Barrier reached with every unit successful: merge, route, next frontier.
Barrier ==
    /\ status = "running"
    /\ AllFinished
    /\ ~AnyFailed
    /\ LET ups == Updates(frontier)
           c == MergeOverwrite(counter, ups, "counter")
           m == MergeOverwrite(mode, ups, "mode")
           msgs == MergeAppend(messages, ups, "messages")
           snapshot == State(c, delay, data_size, expand, m, msgs)
           next == NextFrontier(frontier, snapshot)
       IN  /\ counter' = c
           /\ mode' = m
           /\ messages' = msgs
           /\ frontier' = next
           /\ status' = IF next = <<>> THEN "done" ELSE "running"
    /\ step' = step + 1
    /\ order' = <<>>
    /\ UNCHANGED <<delay, data_size, expand, config, input, error>>

\* Barrier reached with a failed unit: the successful siblings' updates are
\* merged, the lowest-index failure is raised, and the run stops.
BarrierFail ==
    /\ status = "running"
    /\ AllFinished
    /\ AnyFailed
    /\ LET ups == Updates(frontier)
       IN  /\ counter' = MergeOverwrite(counter, ups, "counter")
           /\ mode' = MergeOverwrite(mode, ups, "mode")
           /\ messages' = MergeAppend(messages, ups, "messages")
    /\ error' = FirstFailure(frontier)
    /\ status' = "failed"
    /\ step' = step + 1
    /\ UNCHANGED <<delay, data_size, expand, config, input, frontier, order>>

Next ==
    \/ \E i \in 1..Len(frontier) : Execute(i)
    \/ Barrier
    \/ BarrierFail

Spec == Init /\ [][Next]_vars

\* Every unit of the frontier is a task of the event loop and is eventually
\* resumed, and the engine proceeds once the barrier is reached.
FairSpec == Spec /\ WF_vars(Next)

TypeOK ==
    /\ status \in {"running", "done", "failed"}
    /\ step \in 0..(MaxExpand + 2)

\* ------------------------------------------------------------ helpers
Ids(msgs) == [i \in 1..Len(msgs) |-> msgs[i].id]

IsPrefix(a, b) == Len(a) <= Len(b) /\ SubSeq(b, 1, Len(a)) = a

Ended == status # "running"

\* The delay a node is expected to suspend for when the run configuration may
\* override the state's delay.
EffectiveDelay == IF config.delay # NoDelay THEN config.delay ELSE delay

\* -------------------------------------------------------------- claims

\* C1: a run in mode "sequential" with expand = N (started with an empty log)
\* ends as done with exactly N+1 messages, counter = N and message ids
\* 0,1,...,N in log order; with N = 0 it ends right after the entry node.
SequentialRunCounts ==
    (input.mode = "sequential" /\ input.messages = <<>> /\ Ended) =>
        /\ status = "done"
        /\ Len(messages) = expand + 1
        /\ counter = expand
        /\ Ids(messages) = [i \in 1..(expand + 1) |-> i - 1]
        /\ step = expand + 1
        /\ (expand = 0 => step = 1)

SequentialRunCountsWitness ==
    /\ input.mode = "sequential"
    /\ input.messages = <<>>
    /\ status = "done"
    /\ expand >= 2
    /\ Len(messages) = expand + 1

\* C2: a run in mode "parallel" with expand = N ends with a final log of
\* exactly N+1 messages: id 0 first, and the other ids are exactly {1..N},
\* none twice.
ParallelRunCollectsBranches ==
    (input.mode = "parallel" /\ input.messages = <<>> /\ Ended) =>
        /\ status = "done"
        /\ Len(messages) = expand + 1
        /\ messages[1].id = 0
        /\ {messages[i].id : i \in 2..Len(messages)} = 1..expand
        /\ \A i, j \in 2..Len(messages) : i # j => messages[i].id # messages[j].id

\* C3: once the barrier of the fan-out super-step has passed, the log holds
\* the entry message followed by the branch messages in ascending branch id,
\* whatever order the branch units finished in.
BranchMessagesAscending ==
    (input.mode = "parallel" /\ step = 2) =>
        Ids(SubSeq(messages, Len(input.messages) + 1, Len(messages)))
            = [i \in 1..(expand + 1) |-> i - 1]

\* C4: a run in mode "single" runs the entry node only and is terminal after
\* exactly one super-step with exactly 1 message and counter = 0.
SingleRunOneStep ==
    input.mode = "single" =>
        /\ \A i \in 1..Len(frontier) : frontier[i].node = "entry_node"
        /\ step <= 1
        /\ (step = 1 => status = "done" /\ counter = 0)
        /\ (Ended /\ input.messages = <<>> => Len(messages) = 1 /\ messages[1].id = 0)

SingleRunOneStepWitness ==
    /\ input.mode = "single"
    /\ input.messages = <<>>
    /\ input.counter > 0
    /\ expand > 0
    /\ status = "done"
    /\ step = 1

\* C5 as stated: every raw mode other than "single", "sequential", "parallel"
\* (empty and absent included) makes the entry node fail: no update, no later
\* node, no final state.
EveryOtherModeFails ==
    (input.mode \notin {"single", "sequential", "parallel"} /\ step >= 1) =>
        /\ status = "failed"
        /\ error.err = "ValueError"
        /\ messages = input.messages

\* C5 amended: a non-empty raw mode that is neither a declared value nor a
\* member makes the entry node fail (no update merged, only the entry unit
\* ever runs, the run never ends as done); an empty or absent mode resolves to
\* SINGLE_NODE and the run completes.
UnrecognizedModeFails ==
    /\ (Truthy(input.mode) /\ ~IsModeValue(input.mode)) =>
          /\ status # "done"
          /\ step <= 1
          /\ Len(frontier) = 1 /\ frontier[1].node = "entry_node"
          /\ frontier[1].update = <<>>
          /\ frontier[1].pc # "ok"
          /\ messages = input.messages
          /\ counter = input.counter
          /\ mode = input.mode
          /\ (step = 1 => /\ status = "failed"
                          /\ error = [unit |-> 1, node |-> "entry_node", err |-> "ValueError"])
    /\ (input.mode \in {"", SINGLE_NODE} /\ step >= 1) =>
          status = "done" /\ mode = SINGLE_NODE

UnrecognizedModeFailsWitness ==
    /\ input.mode = "bogus"
    /\ status = "failed"
    /\ step = 1

\* C6 as stated: counter never decreases from one state to the next, whatever
\* the initial counter.
CounterNeverDecreases == [][counter' >= counter]_vars

\* C6 amended: once the entry node's update has been merged (it resets counter
\* to 0), counter never decreases from one state to the next.
CounterMonotoneAfterEntry == [][step >= 1 => counter' >= counter]_vars

CounterMonotoneAfterEntryWitness ==
    /\ input.counter > 0
    /\ step >= 3
    /\ counter >= 2

\* C7: messages only grows: across every step the previous log is a prefix of
\* the new one, so entries of the initial log are never removed, changed or
\* moved.
MessagesOnlyGrow == [][IsPrefix(messages, messages')]_vars

MessagesOnlyGrowWitness ==
    /\ input.messages # <<>>
    /\ step >= 2
    /\ Len(messages) >= Len(input.messages) + 2
    /\ IsPrefix(input.messages, messages)

\* C8: mode is written only by the merge of the entry node's update (the first
\* super-step), every successful entry node writes it, and it never changes
\* once that merge is done; no sequential or parallel unit returns a mode key.
ModeWrittenOnceByEntry ==
    [][ LET merging == step' = step + 1
            writers == {i \in 1..Len(frontier) :
                           frontier[i].pc = "ok" /\ Has(frontier[i].update, "mode")}
        IN  /\ (merging /\ writers # {}) =>
                   step = 0 /\ \A i \in writers : frontier[i].node = "entry_node"
            /\ (merging /\ step = 0 /\ status' # "failed") => writers = {1}
            /\ step >= 1 => mode' = mode
            /\ \A i \in 1..Len(frontier') :
                   frontier'[i].node # "entry_node" => ~Has(frontier'[i].update, "mode")
      ]_vars

ModeWrittenOnceByEntryWitness ==
    /\ input.mode = "sequential"
    /\ mode = SEQUENTIAL_NODES
    /\ step >= 2
    /\ \E i \in 1..Len(frontier) :
           frontier[i].node = "sequential_node" /\ frontier[i].pc = "ok"

\* C9: a sequential or parallel unit that has reached its suspension has
\* suspended for the configuration's delay when one is supplied, and for the
\* state's delay otherwise.
ConfigDelayOverrides ==
    \A i \in 1..Len(frontier) :
        (frontier[i].node \in {"sequential_node", "parallel_node"}
         /\ frontier[i].pc \in {"sleeping", "ok"})
            => frontier[i].slept = EffectiveDelay

\* C10: a run fails only at a barrier where every unit of the super-step has
\* finished; the successful siblings' messages are merged, the failure raised
\* is that of the failed unit with the lowest index, and a failed run takes no
\* further step and never becomes done.
FailureAfterBarrier ==
    [][ /\ (status = "running" /\ status' = "failed") =>
               /\ \A i \in 1..Len(frontier) : Finished(frontier[i])
               /\ frontier[error'.unit].pc = "failed"
               /\ error'.err = frontier[error'.unit].err
               /\ \A i \in 1..Len(frontier) :
                      frontier[i].pc = "failed" => error'.unit <= i
               /\ IsPrefix(messages, messages')
               /\ Len(messages') = Len(messages)
                     + Cardinality({i \in 1..Len(frontier) :
                           frontier[i].pc = "ok" /\ Has(frontier[i].update, "messages")})
        /\ (\E i \in 1..Len(frontier) : frontier[i].pc = "failed") => status' # "done"
        /\ status = "failed" => FALSE
      ]_vars

FailureAfterBarrierWitness ==
    /\ status = "failed"
    /\ Len(frontier) >= 2
    /\ error.unit = 1
    /\ error.node = "parallel_node"

\* The messages a run adds to the log, as a function of its inputs alone: none
\* when the entry node rejects the mode, else the entry message followed, in
\* sequential mode, by one message per step 1..expand.
Payload == [i \in 1..data_size |-> "a"]

ExpectedContribution ==
    IF Truthy(input.mode) /\ ~IsModeValue(input.mode) THEN <<>>
    ELSE << Message(0, "entry", <<>>) >>
         \o (IF input.mode = "sequential"
             THEN [k \in 1..expand |-> Message(k, "sequential", Payload)]
             ELSE <<>>)

ValidMode == input.mode \in {"single", "sequential", "parallel"}

ValidRunTerminates == ValidMode => <>(status = "done")

\* C13: every parallel unit that has finished has suspended for the run's
\* delay and returned exactly one message, whose id is the branch id of its
\* own overlay and whose payload has length data_size.
ParallelUnitEmitsBranchMessage ==
    \A i \in 1..Len(frontier) :
        (frontier[i].node = "parallel_node" /\ Finished(frontier[i])) =>
            /\ frontier[i].pc = "ok"
            /\ frontier[i].slept = delay
            /\ Keys(frontier[i].update) = {"messages"}
            /\ Len(Get(frontier[i].update, "messages")) = 1
            /\ Get(frontier[i].update, "messages")[1].id = frontier[i].state.parallel_id
            /\ Len(Get(frontier[i].update, "messages")[1].content.data) = data_size

\* The post-merge snapshot the router is invoked on.
Shared == State(counter, delay, data_size, expand, mode, messages)

ParallelUnits(units) == {i \in 1..Len(units) : units[i].node = "parallel_node"}

\* C14: in fan-out mode the router's decision is a branch set of exactly
\* expand directives, all targeting the parallel node, with branch ids
\* pairwise distinct and exactly 1..expand; the frontier built from the
\* decision after the entry node holds exactly these units.
RouterFansOutExpand ==
    mode = PARALLEL_NODES =>
        LET d == should_continue(Shared, config)
        IN  /\ d.kind = "sends"
            /\ Len(d.sends) = expand
            /\ \A j \in 1..Len(d.sends) : d.sends[j].node = "parallel_node"
            /\ {d.sends[j].arg.parallel_id : j \in 1..Len(d.sends)} = 1..expand
            /\ \A j, k \in 1..Len(d.sends) :
                   j # k => d.sends[j].arg.parallel_id # d.sends[k].arg.parallel_id
            /\ step >= 1
            /\ Len(frontier) = expand
            /\ \A i \in 1..Len(frontier) :
                   /\ frontier[i].node = "parallel_node"
                   /\ frontier[i].state = Overlay(i)

RouterFansOutExpandWitness ==
    /\ mode = PARALLEL_NODES
    /\ step = 1
    /\ expand >= 2
    /\ Len(frontier) = expand
    /\ \A i \in 1..Len(frontier) : frontier[i].pc = "ready"

\* C15: parallel units enter the frontier only at the routing decision taken
\* after the entry node; a super-step of parallel units is followed by no
\* routing and spawns nothing; a super-step of the sequential node never
\* yields a parallel unit, and its router never returns a branch set.
FanOutOnlyAfterEntry ==
    [][ LET routed == step' = step + 1
        IN  /\ (routed /\ status' = "running" /\ ParallelUnits(frontier') # {}) =>
                   /\ step = 0
                   /\ Len(frontier) = 1 /\ frontier[1].node = "entry_node"
            /\ (routed /\ ParallelUnits(frontier) # {}) =>
                   /\ status' # "running"
                   /\ frontier' \in {<<>>, frontier}
            /\ (routed /\ \E i \in 1..Len(frontier) : frontier[i].node = "sequential_node") =>
                   /\ ParallelUnits(frontier') = {}
                   /\ should_continue(Shared, config)'.kind = "node"
      ]_vars

FanOutOnlyAfterEntryWitness ==
    /\ input.mode = "parallel"
    /\ step = 2
    /\ Len(frontier) >= 2
    /\ ParallelUnits(frontier) = 1..Len(frontier)
    /\ status # "running"

\* C16: the shared state changes, a super-step is counted and the run ends
\* only in a step taken when every unit of the frontier has finished; while
\* a unit is still executing the run is running.
BarrierBeforeMerge ==
    [][ /\ (\/ messages' # messages \/ counter' # counter \/ mode' # mode
            \/ step' # step \/ status' # status)
               => \A i \in 1..Len(frontier) : Finished(frontier[i])
        /\ (\E i \in 1..Len(frontier') : ~Finished(frontier'[i])) => status' = "running"
      ]_vars

BarrierBeforeMergeWitness ==
    /\ status = "running"
    /\ Len(frontier) >= 3
    /\ \E i, j \in 1..Len(frontier) :
           i < j /\ ~Finished(frontier[i]) /\ Finished(frontier[j])
    /\ messages = input.messages \o << Message(0, "entry", <<>>) >>

\* C17: while a super-step executes, the snapshot held by every unit that
\* received a State equals the snapshot it was handed, that is, the shared
\* state of that super-step.
SnapshotUnmodified ==
    status = "running" =>
        \A i \in 1..Len(frontier) :
            HasAttr(frontier[i].state) => frontier[i].state = Shared

\* C18: the entry and sequential units run alone, parallel units return no
\* key other than messages, and no two units of one super-step return the
\* same overwrite field (counter, mode).
NoConcurrentOverwrite ==
    /\ \A i \in 1..Len(frontier) :
           /\ frontier[i].node \in {"entry_node", "sequential_node"} => Len(frontier) = 1
           /\ frontier[i].node = "parallel_node" => Keys(frontier[i].update) \subseteq {"messages"}
    /\ \A k \in {"counter", "mode"} :
           Cardinality({i \in 1..Len(frontier) : Has(frontier[i].update, k)}) <= 1

NoConcurrentOverwriteWitness ==
    /\ Len(frontier) >= 2
    /\ status = "running"
    /\ \A i \in 1..Len(frontier) : Finished(frontier[i])

\* C19: in a sequential run started with an empty log, once the entry node's
\* update is merged, 0 <= counter <= expand, the log has counter + 1 messages
\* and the last message's id is counter.
SequentialChainInvariant ==
    (input.mode = "sequential" /\ input.messages = <<>> /\ step >= 1) =>
        /\ 0 <= counter /\ counter <= expand
        /\ Len(messages) = counter + 1
        /\ messages[Len(messages)].id = counter

SequentialChainInvariantWitness ==
    /\ input.mode = "sequential"
    /\ input.messages = <<>>
    /\ status = "running"
    /\ counter >= 1
    /\ counter < expand
    /\ Len(messages) = counter + 1

====
